---------------------------- MODULE Spec2Model ----------------------------
(***************************************************************************)
(* Model of the patent term and fee calculation engine of                  *)
(* backend/ps.py (PatentSentry): calculate_expiry,                         *)
(* calculate_design_patent_expiry, calculate_maintenance_fees and the      *)
(* handle_analyze request handler with its analysis cache.                 *)
(*                                                                         *)
(* Python values are tagged records: None is [t |-> "None"], an int is     *)
(* [t |-> "int", v |-> n], a "%Y-%m-%d" text is [t |-> "str", y, m, d]     *)
(* holding its three numeric fields.  A datetime produced by strptime of   *)
(* such a text is [year, month, day] at 00:00:00.  A raised exception is   *)
(* [exc |-> name].  Years of the model stay within 1000..9999, where       *)
(* strftime("%Y") writes the four digits strptime("%Y") reads.             *)
(***************************************************************************)
EXTENDS Integers, Sequences, FiniteSets, Bags, TLC

VARIABLES now, call, last, again, analysis_cache, inflight, response, started

vars == <<now, call, last, again, analysis_cache, inflight, response, started>>

-----------------------------------------------------------------------------
(* Python values *)

PyNone == [t |-> "None"]

PyInt(n) == [t |-> "int", v |-> n]

PyDateStr(y, m, d) == [t |-> "str", y |-> y, m |-> m, d |-> d]

\* Python truthiness of None, an int or a non-empty string
Truthy(x) == IF x.t = "None" THEN FALSE ELSE IF x.t = "int" THEN x.v # 0 ELSE TRUE

\* `x or 0` for x None or an int
OrZero(x) == IF Truthy(x) THEN x.v ELSE 0

Raise(name) == [exc |-> name]

IsError(x) == "exc" \in DOMAIN x

-----------------------------------------------------------------------------
(* datetime / calendar library semantics used by the calculators *)

MINYEAR == 1

MAXYEAR == 9999

is_leap_year(year) == (year % 4 = 0 /\ year % 100 # 0) \/ (year % 400 = 0)

mdays == <<31, 28, 31, 30, 31, 30, 31, 31, 30, 31, 30, 31>>

\* calendar.monthrange(year, month)[1]
monthrange_days(year, month) ==
    mdays[month] + (IF month = 2 /\ is_leap_year(year) THEN 1 ELSE 0)

RECURSIVE DaysBeforeMonth(_, _)
DaysBeforeMonth(year, month) ==
    IF month = 1 THEN 0
    ELSE DaysBeforeMonth(year, month - 1) + monthrange_days(year, month - 1)

DaysBeforeYear(year) ==
    LET y == year - 1 IN y * 365 + (y \div 4) - (y \div 100) + (y \div 400)

DaysInYear(year) == IF is_leap_year(year) THEN 366 ELSE 365

\* datetime.toordinal(): day 1 is 0001-01-01
toordinal(dt) == DaysBeforeYear(dt.year) + DaysBeforeMonth(dt.year, dt.month) + dt.day

MaxOrdinal == DaysBeforeYear(MAXYEAR) + DaysInYear(MAXYEAR)

\* datetime.fromordinal(n) for 1 <= n <= MaxOrdinal (the 400/100/4/1-year cycles)
fromordinal(n) ==
    LET n0   == n - 1
        n400 == n0 \div 146097
        r400 == n0 % 146097
        n100 == r400 \div 36524
        r100 == r400 % 36524
        n4   == r100 \div 1461
        r4   == r100 % 1461
        n1   == r4 \div 365
        r1   == r4 % 365
        year == n400 * 400 + 1 + n100 * 100 + n4 * 4 + n1
    IN  IF n1 = 4 \/ n100 = 4
        THEN [year |-> year - 1, month |-> 12, day |-> 31]
        ELSE LET month == CHOOSE m \in 1..12 :
                              /\ DaysBeforeMonth(year, m) <= r1
                              /\ r1 < DaysBeforeMonth(year, m) + monthrange_days(year, m)
             IN  [year |-> year, month |-> month,
                  day |-> r1 - DaysBeforeMonth(year, month) + 1]

\* datetime.strptime(s, "%Y-%m-%d"): ValueError unless the fields name a real day
strptime(s) ==
    IF s.t # "str" THEN Raise("TypeError")
    ELSE IF /\ s.y \in MINYEAR..MAXYEAR
            /\ s.m \in 1..12
            /\ s.d >= 1
            /\ s.d <= monthrange_days(s.y, s.m)
         THEN [year |-> s.y, month |-> s.m, day |-> s.d]
         ELSE Raise("ValueError")

\* dt.strftime("%Y-%m-%d")
strftime(dt) == PyDateStr(dt.year, dt.month, dt.day)

\* dt + timedelta(days=days)
timedelta_add(dt, days) ==
    LET n == toordinal(dt) + days
    IN  IF n < 1 \/ n > MaxOrdinal THEN Raise("OverflowError") ELSE fromordinal(n)

\* mutant: dt.replace(year=dt.year + years), which rejects a day the month lacks
relativedelta_years_replace(dt, years) ==
    LET year == dt.year + years
    IN  IF year < MINYEAR \/ year > MAXYEAR THEN Raise("ValueError")
        ELSE IF monthrange_days(year, dt.month) < dt.day THEN Raise("ValueError")
        ELSE [year |-> year, month |-> dt.month, day |-> dt.day]

\* dt + relativedelta(years=years): same month, day cut to the month's length
relativedelta_years(dt, years) ==
    LET year == dt.year + years
    IN  IF year < MINYEAR \/ year > MAXYEAR THEN Raise("ValueError")
        ELSE [year |-> year, month |-> dt.month,
              day |-> IF monthrange_days(year, dt.month) < dt.day
                      THEN monthrange_days(year, dt.month) ELSE dt.day]

\* dt1 < dt2 for two datetimes
DateLess(dt1, dt2) == toordinal(dt1) < toordinal(dt2)

-----------------------------------------------------------------------------
(* The wall clock.  It counts ticks of 1/TicksPerDay day since the         *)
(* midnight that starts 0001-01-01, so a datetime at 00:00 is              *)
(* (toordinal - 1) * TicksPerDay ticks.                                    *)

TicksPerDay == 2

SecondsPerTick == 86400 \div TicksPerDay

Midnight(dt) == (toordinal(dt) - 1) * TicksPerDay

\* mutant: datetime.now() <= dt
NowBefore_le(t, dt) == t <= Midnight(dt)

\* datetime.now() < dt, with t the value datetime.now() returned
NowBefore(t, dt) == t < Midnight(dt)

-----------------------------------------------------------------------------
(* The calculators *)

\* mutant: the extension days are left out of the sum
total_adjustment_pta_only(pta_days, pte_days) == OrZero(pta_days)

\* total_adjustment = int(pta_days or 0) + int(pte_days or 0)
total_adjustment(pta_days, pte_days) == OrZero(pta_days) + OrZero(pte_days)

\* mutant: the PTE clause is appended before the PTA clause
reason_text_pte_first(pta_days, pte_days) ==
    "20 years from filing"
    \o (IF Truthy(pte_days) THEN " + " \o ToString(pte_days.v) \o " days PTE" ELSE "")
    \o (IF Truthy(pta_days) THEN " + " \o ToString(pta_days.v) \o " days PTA" ELSE "")

\* the reason text built from "20 years from filing" and the two clauses
reason_text(pta_days, pte_days) ==
    "20 years from filing"
    \o (IF Truthy(pta_days) THEN " + " \o ToString(pta_days.v) \o " days PTA" ELSE "")
    \o (IF Truthy(pte_days) THEN " + " \o ToString(pte_days.v) \o " days PTE" ELSE "")

\* mutant: if td_date <= adjusted_date
td_overrides_le(td_date, adjusted_date) == toordinal(td_date) <= toordinal(adjusted_date)

\* if td_date < adjusted_date
td_overrides(td_date, adjusted_date) == DateLess(td_date, adjusted_date)

\* mutant: the disclaimer date is compared with datetime.now() instead of
\* the adjusted date
calculate_expiry_td_vs_now(filing_str, pta_days, pte_days, td_date_str, t) ==
    LET filing_date == strptime(filing_str)
    IN  IF IsError(filing_date) THEN filing_date
        ELSE
        LET baseline == relativedelta_years(filing_date, 20)
        IN  IF IsError(baseline) THEN baseline
            ELSE
            LET adjusted_date == timedelta_add(baseline, total_adjustment(pta_days, pte_days))
            IN  IF IsError(adjusted_date) THEN adjusted_date
                ELSE
                LET td_date == IF Truthy(td_date_str) THEN strptime(td_date_str) ELSE PyNone
                IN  IF IsError(td_date) THEN td_date
                    ELSE
                    LET override == Truthy(td_date_str) /\ Midnight(td_date) < t
                        final_date == IF override THEN td_date ELSE adjusted_date
                    IN  [expiry |-> strftime(final_date),
                         reason |-> IF override
                                    THEN "Terminal Disclaimer (expires with linked patent)"
                                    ELSE reason_text(pta_days, pte_days),
                         is_active |-> NowBefore(t, final_date),
                         baseline_expiry |-> strftime(baseline),
                         pta_days |-> OrZero(pta_days),
                         pte_days |-> OrZero(pte_days),
                         calculated_expiry |-> strftime(final_date)]

\* calculate_expiry(filing_str, pta_days, pte_days, td_date_str), where t is
\* the one value datetime.now() returns in the call
calculate_expiry(filing_str, pta_days, pte_days, td_date_str, t) ==
    LET filing_date == strptime(filing_str)
    IN  IF IsError(filing_date) THEN filing_date
        ELSE
        LET baseline == relativedelta_years(filing_date, 20)
        IN  IF IsError(baseline) THEN baseline
            ELSE
            LET adjusted_date == timedelta_add(baseline, total_adjustment(pta_days, pte_days))
            IN  IF IsError(adjusted_date) THEN adjusted_date
                ELSE
                LET td_date == IF Truthy(td_date_str) THEN strptime(td_date_str) ELSE PyNone
                IN  IF IsError(td_date) THEN td_date
                    ELSE
                    LET override == Truthy(td_date_str) /\ td_overrides(td_date, adjusted_date)
                        final_date == IF override THEN td_date ELSE adjusted_date
                    IN  [expiry |-> strftime(final_date),
                         reason |-> IF override
                                    THEN "Terminal Disclaimer (expires with linked patent)"
                                    ELSE reason_text(pta_days, pte_days),
                         is_active |-> NowBefore(t, final_date),
                         baseline_expiry |-> strftime(baseline),
                         pta_days |-> OrZero(pta_days),
                         pte_days |-> OrZero(pte_days),
                         calculated_expiry |-> strftime(final_date)]

cutoff_date == strptime(PyDateStr(2015, 5, 13))

\* mutant: 15 only if filing_date > cutoff_date
years_to_add_strict(filing_date) == IF DateLess(cutoff_date, filing_date) THEN 15 ELSE 14

\* years_to_add = 15 if filing_date >= cutoff_date else 14
years_to_add(filing_date) == IF ~DateLess(filing_date, cutoff_date) THEN 15 ELSE 14

\* calculate_design_patent_expiry(grant_date_str, filing_date_str)
calculate_design_patent_expiry(grant_date_str, filing_date_str, t) ==
    LET grant_date == strptime(grant_date_str)
    IN  IF IsError(grant_date) THEN grant_date
        ELSE
        LET filing_date == strptime(filing_date_str)
        IN  IF IsError(filing_date) THEN filing_date
            ELSE
            LET baseline == relativedelta_years(grant_date, years_to_add(filing_date))
            IN  IF IsError(baseline) THEN baseline
                ELSE [expiry |-> strftime(baseline),
                      reason |-> ToString(years_to_add(filing_date)) \o " years from grant date",
                      is_active |-> NowBefore(t, baseline),
                      baseline_expiry |-> strftime(baseline),
                      pta_days |-> 0,
                      pte_days |-> 0,
                      calculated_expiry |-> strftime(baseline)]

\* mutant: the day is not clamped, so date.replace rejects a day the month lacks
add_years_months_unclamped(date, years, months) ==
    LET new_month0 == date.month + months
        new_year == date.year + years + ((new_month0 - 1) \div 12)
        new_month == ((new_month0 - 1) % 12) + 1
    IN  IF new_year < MINYEAR \/ new_year > MAXYEAR THEN Raise("ValueError")
        ELSE IF date.day > monthrange_days(new_year, new_month) THEN Raise("ValueError")
        ELSE [year |-> new_year, month |-> new_month, day |-> date.day]

\* mutant: the month length is taken without the leap-year day
add_years_months_noleap(date, years, months) ==
    LET new_month0 == date.month + months
        new_year == date.year + years + ((new_month0 - 1) \div 12)
        new_month == ((new_month0 - 1) % 12) + 1
        clamped_day == IF date.day < mdays[new_month] THEN date.day ELSE mdays[new_month]
    IN  IF new_year < MINYEAR \/ new_year > MAXYEAR THEN Raise("ValueError")
        ELSE [year |-> new_year, month |-> new_month, day |-> clamped_day]

\* mutant: the year carry rounds toward zero, so a month below 1 borrows nothing
add_years_months_trunc(date, years, months) ==
    LET new_month0 == date.month + months
        carry == IF new_month0 - 1 >= 0 THEN (new_month0 - 1) \div 12
                 ELSE -((1 - new_month0) \div 12)
        new_year == date.year + years + carry
        new_month == ((new_month0 - 1) % 12) + 1
        last_day_of_month == monthrange_days(new_year, new_month)
        clamped_day == IF date.day < last_day_of_month THEN date.day ELSE last_day_of_month
    IN  IF new_year < MINYEAR \/ new_year > MAXYEAR THEN Raise("ValueError")
        ELSE [year |-> new_year, month |-> new_month, day |-> clamped_day]

\* add_years_months(date, years, months), nested in calculate_maintenance_fees
add_years_months(date, years, months) ==
    LET new_month0 == date.month + months
        new_year == date.year + years + ((new_month0 - 1) \div 12)
        new_month == ((new_month0 - 1) % 12) + 1
        last_day_of_month == monthrange_days(new_year, new_month)
        clamped_day == IF date.day < last_day_of_month THEN date.day ELSE last_day_of_month
    IN  IF new_year < MINYEAR \/ new_year > MAXYEAR THEN Raise("ValueError")
        ELSE [year |-> new_year, month |-> new_month, day |-> clamped_day]

\* mutant: half a year taken as timedelta(days=182) on either side
fee_schedule_days(due_date) ==
    LET window_start == timedelta_add(due_date, -182)
        surcharge_end == timedelta_add(due_date, 182)
    IN  IF IsError(window_start) THEN window_start
        ELSE IF IsError(surcharge_end) THEN surcharge_end
        ELSE [due_date |-> strftime(due_date),
              window_start |-> strftime(window_start),
              window_end |-> strftime(due_date),
              surcharge_end |-> strftime(surcharge_end)]

\* fee_schedule(due_date), nested in calculate_maintenance_fees
fee_schedule(due_date) ==
    LET window_start == add_years_months(due_date, 0, -6)
        surcharge_end == add_years_months(due_date, 0, 6)
    IN  IF IsError(window_start) THEN window_start
        ELSE IF IsError(surcharge_end) THEN surcharge_end
        ELSE [due_date |-> strftime(due_date),
              window_start |-> strftime(window_start),
              window_end |-> strftime(due_date),
              surcharge_end |-> strftime(surcharge_end)]

\* calculate_maintenance_fees(grant_date_str)
calculate_maintenance_fees(grant_date_str) ==
    LET grant_date == strptime(grant_date_str)
    IN  IF IsError(grant_date) THEN grant_date
        ELSE
        LET year_3_5 == add_years_months(grant_date, 3, 6)
            year_7_5 == add_years_months(grant_date, 7, 6)
            year_11_5 == add_years_months(grant_date, 11, 6)
        IN  IF IsError(year_3_5) THEN year_3_5
            ELSE IF IsError(year_7_5) THEN year_7_5
            ELSE IF IsError(year_11_5) THEN year_11_5
            ELSE
            LET w1 == fee_schedule(year_3_5)
                w2 == fee_schedule(year_7_5)
                w3 == fee_schedule(year_11_5)
            IN  IF IsError(w1) THEN w1
                ELSE IF IsError(w2) THEN w2
                ELSE IF IsError(w3) THEN w3
                ELSE [year_3_5 |-> w1, year_7_5 |-> w2, year_11_5 |-> w3]

-----------------------------------------------------------------------------
(* Direct invocations of the calculators.  call holds the calculator and   *)
(* the arguments a caller supplies, last is its invocation at instant      *)
(* last.t and again a later invocation with the same arguments.            *)

MaxTicks == 4

ClockStart == Midnight([year |-> 2026, month |-> 11, day |-> 3])

FilingStrs == {PyDateStr(y, m, d) : y \in {2004, 2006, 2080}, m \in {2, 11}, d \in {4, 29, 31}}

PtaValues == {PyNone, PyInt(0), PyInt(1), PyInt(90)}

PteValues == {PyNone, PyInt(0), PyInt(-1), PyInt(366)}

TdStrs == {PyNone} \cup {PyDateStr(2026, 11, d) : d \in {4, 5, 6, 31}}

GrantStrs == {PyDateStr(y, m, d) : y \in {2011, 2012, 2020}, m \in {1, 2, 8, 9, 11}, d \in {4, 29, 31}}

DesignFilingStrs == {PyDateStr(y, m, d) : y \in {2014, 2015, 2016}, m \in {5, 6}, d \in {12, 13}}

Calls ==
    {[fn |-> "calculate_expiry", args |-> <<f, pta, pte, td>>] :
        f \in FilingStrs, pta \in PtaValues, pte \in PteValues, td \in TdStrs}
    \cup {[fn |-> "calculate_design_patent_expiry", args |-> <<g, f>>] :
        g \in GrantStrs, f \in DesignFilingStrs}
    \cup {[fn |-> "calculate_maintenance_fees", args |-> <<g>>] : g \in GrantStrs}

NoCall == [fn |-> "none", args |-> <<>>]

NotDone == [done |-> FALSE]

Done(t, result) == [done |-> TRUE, t |-> t, result |-> result]

CallCalculateExpiry ==
    /\ call.fn = "calculate_expiry"
    /\ ~last.done
    /\ last' = Done(now, calculate_expiry(call.args[1], call.args[2], call.args[3],
                                          call.args[4], now))
    /\ UNCHANGED <<now, call, again, analysis_cache, inflight, response, started>>

CallCalculateDesignPatentExpiry ==
    /\ call.fn = "calculate_design_patent_expiry"
    /\ ~last.done
    /\ last' = Done(now, calculate_design_patent_expiry(call.args[1], call.args[2], now))
    /\ UNCHANGED <<now, call, again, analysis_cache, inflight, response, started>>

CallCalculateMaintenanceFees ==
    /\ call.fn = "calculate_maintenance_fees"
    /\ ~last.done
    /\ last' = Done(now, calculate_maintenance_fees(call.args[1]))
    /\ UNCHANGED <<now, call, again, analysis_cache, inflight, response, started>>

\* the same calculator invoked a second time with identical arguments
CallAgain ==
    /\ last.done
    /\ ~again.done
    /\ again' = Done(now,
         IF call.fn = "calculate_expiry"
         THEN calculate_expiry(call.args[1], call.args[2], call.args[3], call.args[4], now)
         ELSE IF call.fn = "calculate_design_patent_expiry"
         THEN calculate_design_patent_expiry(call.args[1], call.args[2], now)
         ELSE calculate_maintenance_fees(call.args[1]))
    /\ UNCHANGED <<now, call, last, analysis_cache, inflight, response, started>>

\* the wall clock advances
Tick ==
    /\ now < ClockStart + MaxTicks
    /\ now' = now + 1
    /\ UNCHANGED <<call, last, again, analysis_cache, inflight, response, started>>

InitCalc ==
    /\ now = ClockStart
    /\ call \in Calls
    /\ last = NotDone
    /\ again = NotDone
    /\ analysis_cache = <<>>
    /\ inflight = EmptyBag
    /\ response = [req |-> PyNone, at |-> ClockStart, invoked |-> {}, out |-> [kind |-> "none"]]
    /\ started = 0

NextCalc ==
    \/ CallCalculateExpiry
    \/ CallCalculateDesignPatentExpiry
    \/ CallCalculateMaintenanceFees
    \/ CallAgain
    \/ Tick

SpecCalc == InitCalc /\ [][NextCalc]_vars

-----------------------------------------------------------------------------
(* The calendar primitives on their own: call holds a datetime, a number   *)
(* of years and a number of months, last is add_years_months of them and   *)
(* again the same datetime plus relativedelta(years=years).                *)

DateValues ==
    {strptime(x) : x \in {s \in {PyDateStr(y, m, d) : y \in {1, 2012, 2080, 9999},
                                                      m \in {1, 2, 8, 12},
                                                      d \in {15, 29, 31}} :
                             ~IsError(strptime(s))}}

YearOffsets == {-1, 0, 1, 14, 15, 20}

MonthOffsets == {-13, -6, 0, 1, 13, 25}

CallAddYearsMonths ==
    /\ call.fn = "add_years_months"
    /\ ~last.done
    /\ last' = Done(now, add_years_months(call.args[1], call.args[2], call.args[3]))
    /\ UNCHANGED <<now, call, again, analysis_cache, inflight, response, started>>

CallRelativedelta ==
    /\ call.fn = "add_years_months"
    /\ call.args[3] = 0
    /\ ~again.done
    /\ again' = Done(now, relativedelta_years(call.args[1], call.args[2]))
    /\ UNCHANGED <<now, call, last, analysis_cache, inflight, response, started>>

InitDate ==
    /\ now = ClockStart
    /\ call \in {[fn |-> "add_years_months", args |-> <<d, y, m>>] :
                    d \in DateValues, y \in YearOffsets, m \in MonthOffsets}
    /\ last = NotDone
    /\ again = NotDone
    /\ analysis_cache = <<>>
    /\ inflight = EmptyBag
    /\ response = [req |-> PyNone, at |-> ClockStart, invoked |-> {}, out |-> [kind |-> "none"]]
    /\ started = 0

NextDate ==
    \/ CallAddYearsMonths
    \/ CallRelativedelta

SpecDate == InitDate /\ [][NextDate]_vars

-----------------------------------------------------------------------------
(* handle_analyze and the analysis cache.  A text that is not a date is    *)
(* [t |-> "str", s |-> chars] with chars the sequence of its characters.   *)
(* response is the last reply of the handler: out is the returned dict or  *)
(* the raised exception, at the instant of the reply, invoked the          *)
(* calculators called for it, req the request (for a reply given after     *)
(* the data source answered, its patent number, cache key and              *)
(* force_refresh).  inflight is the bag of requests suspended at the       *)
(* awaited call to the data source; they resume in any order.              *)

PyStr(chars) == [t |-> "str", s |-> chars]

Missing == [t |-> "missing"]

CACHE_TTL_SECONDS == 3600 * 24

UpperLetters == <<"A", "B", "C", "D", "E", "F", "G", "H", "I", "J", "K", "L", "M",
                  "N", "O", "P", "Q", "R", "S", "T", "U", "V", "W", "X", "Y", "Z">>

LowerLetters == <<"a", "b", "c", "d", "e", "f", "g", "h", "i", "j", "k", "l", "m",
                  "n", "o", "p", "q", "r", "s", "t", "u", "v", "w", "x", "y", "z">>

\* str.upper()
upper(chars) ==
    [i \in 1..Len(chars) |->
        IF \E k \in 1..26 : LowerLetters[k] = chars[i]
        THEN UpperLetters[CHOOSE k \in 1..26 : LowerLetters[k] = chars[i]]
        ELSE chars[i]]

\* str.lower()
lower(chars) ==
    [i \in 1..Len(chars) |->
        IF \E k \in 1..26 : UpperLetters[k] = chars[i]
        THEN LowerLetters[CHOOSE k \in 1..26 : UpperLetters[k] = chars[i]]
        ELSE chars[i]]

\* str.replace("US", ""): every occurrence found scanning left to right
RECURSIVE replace_US(_)
replace_US(chars) ==
    IF Len(chars) = 0 THEN <<>>
    ELSE IF Len(chars) >= 2 /\ chars[1] = "U" /\ chars[2] = "S"
    THEN replace_US(SubSeq(chars, 3, Len(chars)))
    ELSE <<chars[1]>> \o replace_US(Tail(chars))

\* str.strip()
RECURSIVE strip(_)
strip(chars) ==
    IF Len(chars) = 0 THEN <<>>
    ELSE IF chars[1] = " " THEN strip(Tail(chars))
    ELSE IF chars[Len(chars)] = " " THEN strip(SubSeq(chars, 1, Len(chars) - 1))
    ELSE chars

\* patent_num = patent_id.upper().replace("US", "").strip()
patent_num_of(patent_id) == strip(replace_US(upper(patent_id.s)))

\* cache_key = f"analyze:{patent_num}"
cache_key_of(patent_num) == <<"analyze:">> \o patent_num

\* "design" in patent_type
contains_design(chars) ==
    \E i \in 1..Len(chars) :
        /\ i + 5 <= Len(chars)
        /\ SubSeq(chars, i, i + 5) = <<"d", "e", "s", "i", "g", "n">>

\* mutant: an entry exactly CACHE_TTL_SECONDS old is still served
cache_fresh_le(t, cached) ==
    (t - cached.timestamp) * SecondsPerTick <= CACHE_TTL_SECONDS

\* datetime.now().timestamp() - cached["timestamp"] < CACHE_TTL_SECONDS
cache_fresh(t, cached) == (t - cached.timestamp) * SecondsPerTick < CACHE_TTL_SECONDS

\* the record of the patent data source for a patent number; no record: not found
PatentsView(patent_num) ==
    IF patent_num = <<"7">>
    THEN [patent_id |-> patent_num,
          patent_earliest_application_date |-> PyDateStr(2006, 11, 4),
          patent_date |-> PyDateStr(2010, 1, 31),
          patent_term_extension |-> PyNone,
          patent_type |-> PyStr(<<"u", "t", "i", "l", "i", "t", "y">>)]
    ELSE IF patent_num = <<"8">>
    THEN [patent_id |-> patent_num,
          patent_earliest_application_date |-> PyDateStr(2006, 11, 3),
          patent_date |-> PyNone,
          patent_term_extension |-> PyInt(1),
          patent_type |-> Missing]
    ELSE IF patent_num = <<"D", "9">>
    THEN [patent_id |-> patent_num,
          patent_earliest_application_date |-> PyDateStr(2010, 5, 12),
          patent_date |-> PyDateStr(2012, 11, 4),
          patent_term_extension |-> PyNone,
          patent_type |-> PyStr(<<"D", "e", "s", "i", "g", "n">>)]
    ELSE IF patent_num = <<"D", "5">>
    THEN [patent_id |-> patent_num,
          patent_earliest_application_date |-> PyDateStr(2015, 5, 13),
          patent_date |-> PyNone,
          patent_term_extension |-> PyNone,
          patent_type |-> PyStr(<<"d", "e", "s", "i", "g", "n">>)]
    ELSE IF patent_num = <<"6">>
    THEN [patent_id |-> patent_num,
          patent_earliest_application_date |-> PyNone,
          patent_date |-> PyDateStr(2012, 11, 4),
          patent_term_extension |-> PyNone,
          patent_type |-> PyStr(<<"u", "t", "i", "l", "i", "t", "y">>)]
    ELSE IF patent_num = <<"4">>
    THEN [patent_id |-> patent_num,
          patent_earliest_application_date |-> PyDateStr(2006, 11, 4),
          patent_date |-> PyDateStr(2010, 1, 31),
          patent_term_extension |-> PyNone,
          patent_type |-> PyNone]
    ELSE PyNone

PatentIds == {PyNone,
              PyStr(<<"U", "S", "7">>), PyStr(<<" ", "u", "s", "7">>), PyStr(<<"7">>),
              PyStr(<<"8">>), PyStr(<<"D", "9">>), PyStr(<<"D", "5">>),
              PyStr(<<"6">>), PyStr(<<"4">>), PyStr(<<"0">>)}

MaxRequests == 2

MaxAdvance == 2

\* mutant: the test of handle_search, patent_type == "design" on the raw text
is_design_type_exact(raw) ==
    raw # Missing /\ raw.s = <<"d", "e", "s", "i", "g", "n">>

\* patent_type = p.get("patent_type", "").lower();
\* is_design = "design" in patent_type if patent_type else False
is_design_type(raw) ==
    LET patent_type == IF raw = Missing THEN <<>> ELSE lower(raw.s)
    IN  IF Len(patent_type) > 0 THEN contains_design(patent_type) ELSE FALSE

\* mutant: the design branch does not look for the grant date
grant_required_never(is_design, grant_date) == FALSE

\* if is_design: if not grant_date: raise HTTPException(400, ...)
grant_required(is_design, grant_date) == is_design /\ ~Truthy(grant_date)

HTTPException(status_code, detail) ==
    [kind |-> "HTTPException", status_code |-> status_code, detail |-> detail]

\* lines 377-431 of handle_analyze for the record p, datetime.now() returning t:
\* the response and the calculators invoked
analyze_patent(p, t) ==
    LET filing_date == p.patent_earliest_application_date
        grant_date == p.patent_date
        pte_days == OrZero(p.patent_term_extension)
    IN  IF p.patent_type = PyNone
        THEN [out |-> [kind |-> "exception", exc |-> "AttributeError"], invoked |-> {}]
        ELSE
        LET is_design == is_design_type(p.patent_type)
        IN  IF ~Truthy(filing_date)
            THEN [out |-> HTTPException(400, "Filing date not available"), invoked |-> {}]
            ELSE IF grant_required(is_design, grant_date)
            THEN [out |-> HTTPException(400,
                     "Grant date required for design patent expiry calculation"),
                  invoked |-> {}]
            ELSE
            LET expiration == IF is_design
                              THEN calculate_design_patent_expiry(grant_date, filing_date, t)
                              ELSE calculate_expiry(filing_date, PyInt(0), PyInt(pte_days),
                                                    PyNone, t)
                maintenance_fees == IF ~is_design /\ Truthy(grant_date)
                                    THEN calculate_maintenance_fees(grant_date)
                                    ELSE PyNone
                invoked == (IF is_design THEN {"calculate_design_patent_expiry"}
                            ELSE {"calculate_expiry"})
                           \cup (IF ~is_design /\ Truthy(grant_date)
                                 THEN {"calculate_maintenance_fees"} ELSE {})
            IN  IF IsError(expiration)
                THEN [out |-> [kind |-> "exception", exc |-> expiration.exc],
                      invoked |-> invoked]
                ELSE IF IsError(maintenance_fees)
                THEN [out |-> [kind |-> "exception", exc |-> maintenance_fees.exc],
                      invoked |-> invoked]
                ELSE [out |-> [kind |-> "result",
                               data |-> [patent_id |-> <<"U", "S">> \o p.patent_id,
                                         patent_type |-> p.patent_type,
                                         dates |-> [filed |-> filing_date,
                                                    granted |-> grant_date,
                                                    baseline_expiry |-> expiration.baseline_expiry,
                                                    calculated_expiry |-> expiration.calculated_expiry,
                                                    pta_days |-> expiration.pta_days,
                                                    pte_days |-> expiration.pte_days],
                                         expiration |-> expiration,
                                         maintenance_fees |-> maintenance_fees,
                                         warnings |-> [terminal_disclaimer |-> FALSE,
                                                       design_fee_status |-> is_design,
                                                       reason |-> expiration.reason],
                                         is_active |-> expiration.is_active],
                               from_cache |-> FALSE],
                      invoked |-> invoked]

\* handle_analyze up to the awaited request to the data source (lines 344-370)
AnalyzeStart ==
    \E patent_id \in PatentIds, force_refresh \in BOOLEAN :
        /\ started < MaxRequests
        /\ started' = started + 1
        /\ LET req == [patent_id |-> patent_id, force_refresh |-> force_refresh]
           IN  IF ~(patent_id # PyNone /\ Len(patent_id.s) > 0)
               THEN /\ response' = [req |-> req, at |-> now, invoked |-> {},
                                    out |-> HTTPException(400, "patent_id required")]
                    /\ UNCHANGED <<analysis_cache, inflight>>
               ELSE
               LET patent_num == patent_num_of(patent_id)
                   cache_key == cache_key_of(patent_num)
               IN  IF /\ ~force_refresh
                      /\ cache_key \in DOMAIN analysis_cache
                      /\ cache_fresh(now, analysis_cache[cache_key])
                   THEN /\ response' = [req |-> req, at |-> now, invoked |-> {},
                                        out |-> [kind |-> "result",
                                                 data |-> analysis_cache[cache_key].data,
                                                 from_cache |-> TRUE]]
                        /\ UNCHANGED <<analysis_cache, inflight>>
                   ELSE /\ inflight' = inflight (+) SetToBag(
                               {[patent_num |-> patent_num, cache_key |-> cache_key,
                                 force_refresh |-> force_refresh]})
                        /\ UNCHANGED <<analysis_cache, response>>
        /\ UNCHANGED <<now, call, last, again>>

\* handle_analyze from the reply of the data source on (lines 371-433);
\* ok is FALSE when the request raised an httpx.HTTPError
AnalyzeFinish ==
    \E pending \in BagToSet(inflight), ok \in BOOLEAN :
        LET p == PatentsView(pending.patent_num)
        IN  /\ inflight' = inflight (-) SetToBag({pending})
            /\ IF ~ok
               THEN /\ response' = [req |-> pending, at |-> now, invoked |-> {},
                                    out |-> HTTPException(500, "Analysis error")]
                    /\ UNCHANGED analysis_cache
               ELSE IF p = PyNone
               THEN /\ response' = [req |-> pending, at |-> now, invoked |-> {},
                                    out |-> HTTPException(404, "Patent not found")]
                    /\ UNCHANGED analysis_cache
               ELSE
               LET a == analyze_patent(p, now)
               IN  /\ response' = [req |-> pending, at |-> now, invoked |-> a.invoked,
                                   out |-> a.out]
                   /\ IF a.out.kind = "result"
                      THEN analysis_cache' =
                             [k \in DOMAIN analysis_cache \cup {pending.cache_key} |->
                                IF k = pending.cache_key
                                THEN [data |-> a.out.data, timestamp |-> now]
                                ELSE analysis_cache[k]]
                      ELSE UNCHANGED analysis_cache
            /\ UNCHANGED <<now, call, last, again, started>>

\* the wall clock advances while requests are served
Advance ==
    /\ now < ClockStart + MaxAdvance
    /\ now' = now + 1
    /\ UNCHANGED <<call, last, again, analysis_cache, inflight, response, started>>

Init ==
    /\ now = ClockStart
    /\ call = NoCall
    /\ last = NotDone
    /\ again = NotDone
    /\ analysis_cache = <<>>
    /\ inflight = EmptyBag
    /\ response = [req |-> PyNone, at |-> ClockStart, invoked |-> {}, out |-> [kind |-> "none"]]
    /\ started = 0

Next ==
    \/ AnalyzeStart
    \/ AnalyzeFinish
    \/ Advance

Spec == Init /\ [][Next]_vars

-----------------------------------------------------------------------------
(* Properties of the calculators, checked under SpecCalc *)

ExpiryDone == call.fn = "calculate_expiry" /\ last.done

DesignDone == call.fn = "calculate_design_patent_expiry" /\ last.done

FeesDone == call.fn = "calculate_maintenance_fees" /\ last.done

\* C1: for a valid filing date f, calculate_expiry(f, 0, 0) returns a
\* baseline_expiry 20 calendar years after f with month and day preserved,
\* except that a Feb-29 filing whose target year is not a leap year gives
\* Feb 28 of the target year.
C1_BaselineTwentyYears ==
    (/\ ExpiryDone
     /\ ~IsError(strptime(call.args[1]))
     /\ call.args[2] = PyInt(0)
     /\ call.args[3] = PyInt(0)
     /\ call.args[4] = PyNone)
    => LET f == call.args[1]
           y == f.y + 20
           leap == (y % 4 = 0 /\ y % 100 # 0) \/ (y % 400 = 0)
       IN  /\ ~IsError(last.result)
           /\ last.result.baseline_expiry =
                IF f.m = 2 /\ f.d = 29 /\ ~leap THEN PyDateStr(y, 2, 28)
                ELSE PyDateStr(y, f.m, f.d)

C1_Witness ==
    /\ ExpiryDone
    /\ call.args = <<PyDateStr(2080, 2, 29), PyInt(0), PyInt(0), PyNone>>
    /\ last.result.baseline_expiry = PyDateStr(2100, 2, 28)

\* C2: with a terminal-disclaimer date, a disclaimer strictly earlier than
\* the adjusted date (baseline + pta_days + pte_days) becomes expiry and
\* calculated_expiry with the reason "Terminal Disclaimer (expires with
\* linked patent)"; a disclaimer equal to or later than the adjusted date
\* leaves expiry, calculated_expiry and reason as in the call without a
\* disclaimer; baseline_expiry is the same in both cases.
C2_DisclaimerStrictlyEarlier ==
    (/\ ExpiryDone
     /\ ~IsError(strptime(call.args[1]))
     /\ call.args[4] # PyNone
     /\ ~IsError(strptime(call.args[4])))
    => LET r == last.result
           td == call.args[4]
           without == calculate_expiry(call.args[1], call.args[2], call.args[3], PyNone, last.t)
           adjusted == toordinal(strptime(without.baseline_expiry))
                       + OrZero(call.args[2]) + OrZero(call.args[3])
       IN  /\ ~IsError(r)
           /\ r.baseline_expiry = without.baseline_expiry
           /\ IF toordinal(strptime(td)) < adjusted
              THEN /\ r.expiry = td
                   /\ r.calculated_expiry = td
                   /\ r.reason = "Terminal Disclaimer (expires with linked patent)"
              ELSE /\ r.expiry = without.expiry
                   /\ r.calculated_expiry = without.calculated_expiry
                   /\ r.reason = without.reason

\* a disclaimer on the very day of the adjusted expiry: not an override
C2_Witness ==
    /\ ExpiryDone
    /\ call.args = <<PyDateStr(2006, 11, 4), PyInt(1), PyNone, PyDateStr(2026, 11, 5)>>
    /\ last.result.expiry = PyDateStr(2026, 11, 5)
    /\ last.result.reason = "20 years from filing + 1 days PTA"

\* C3: without a terminal disclaimer, expiry and calculated_expiry are
\* baseline_expiry plus exactly pta_days + pte_days days (absent or falsy
\* counting as 0), and the pta_days and pte_days fields echo the inputs.
C3_AdjustmentInDays ==
    (/\ ExpiryDone
     /\ ~IsError(strptime(call.args[1]))
     /\ call.args[4] = PyNone)
    => LET r == last.result
           pta == IF call.args[2] = PyNone THEN 0 ELSE call.args[2].v
           pte == IF call.args[3] = PyNone THEN 0 ELSE call.args[3].v
       IN  /\ ~IsError(r)
           /\ r.expiry = r.calculated_expiry
           /\ toordinal(strptime(r.expiry))
                = toordinal(strptime(r.baseline_expiry)) + pta + pte
           /\ r.pta_days = pta
           /\ r.pte_days = pte

\* 90 days after 2026-11-04 is 2027-02-02, three months after is 2027-02-04
C3_Witness ==
    /\ ExpiryDone
    /\ call.args = <<PyDateStr(2006, 11, 4), PyInt(90), PyNone, PyNone>>
    /\ last.result.baseline_expiry = PyDateStr(2026, 11, 4)
    /\ last.result.calculated_expiry = PyDateStr(2027, 2, 2)
    /\ last.result.pta_days = 90
    /\ last.result.pte_days = 0

\* C4: when no terminal disclaimer overrides, reason is "20 years from
\* filing", then " + {pta_days} days PTA" iff pta_days is nonzero, then
\* " + {pte_days} days PTE" iff pte_days is nonzero, PTA before PTE.
C4_ReasonClauses ==
    (/\ ExpiryDone
     /\ ~IsError(last.result)
     /\ \/ call.args[4] = PyNone
        \/ toordinal(strptime(call.args[4]))
             >= toordinal(strptime(last.result.baseline_expiry))
                + OrZero(call.args[2]) + OrZero(call.args[3]))
    => LET pta == call.args[2]
           pte == call.args[3]
           ptaNonzero == pta # PyNone /\ pta.v # 0
           pteNonzero == pte # PyNone /\ pte.v # 0
       IN  last.result.reason =
             IF ptaNonzero /\ pteNonzero
             THEN "20 years from filing + " \o ToString(pta.v) \o " days PTA + "
                  \o ToString(pte.v) \o " days PTE"
             ELSE IF ptaNonzero
             THEN "20 years from filing + " \o ToString(pta.v) \o " days PTA"
             ELSE IF pteNonzero
             THEN "20 years from filing + " \o ToString(pte.v) \o " days PTE"
             ELSE "20 years from filing"

\* the smaller PTA clause comes before the larger PTE clause
C4_Witness ==
    /\ ExpiryDone
    /\ call.args[2] = PyInt(90)
    /\ call.args[3] = PyInt(366)
    /\ ~IsError(last.result)
    /\ last.result.reason = "20 years from filing + 90 days PTA + 366 days PTE"

\* C5: calculate_design_patent_expiry adds 15 years to the grant date if
\* filing_date is on or after 2015-05-13 and 14 years otherwise, whatever the
\* grant date; expiry, calculated_expiry and baseline_expiry are the same
\* date, pta_days and pte_days are 0, reason is "{years} years from grant date".
C5_DesignTerm ==
    (/\ DesignDone
     /\ ~IsError(strptime(call.args[1]))
     /\ ~IsError(strptime(call.args[2])))
    => LET g == call.args[1]
           f == call.args[2]
           years == IF \/ f.y > 2015
                       \/ f.y = 2015 /\ f.m > 5
                       \/ f.y = 2015 /\ f.m = 5 /\ f.d >= 13
                    THEN 15 ELSE 14
           y == g.y + years
           leap == (y % 4 = 0 /\ y % 100 # 0) \/ (y % 400 = 0)
           r == last.result
       IN  /\ ~IsError(r)
           /\ r.expiry = IF g.m = 2 /\ g.d = 29 /\ ~leap THEN PyDateStr(y, 2, 28)
                         ELSE PyDateStr(y, g.m, g.d)
           /\ r.calculated_expiry = r.expiry
           /\ r.baseline_expiry = r.expiry
           /\ r.pta_days = 0
           /\ r.pte_days = 0
           /\ r.reason = ToString(years) \o " years from grant date"

\* filed on the cutoff day itself, granted before it: 15 years
C5_Witness ==
    /\ DesignDone
    /\ call.args = <<PyDateStr(2011, 11, 4), PyDateStr(2015, 5, 13)>>
    /\ last.result.reason = "15 years from grant date"
    /\ last.result.expiry = PyDateStr(2026, 11, 4)

\* C6: for a valid grant date g the three due dates are g advanced by 3, 7
\* and 11 years and 6 months, keeping g's day of month unless it exceeds the
\* length of the target month, in which case the due date is that month's
\* last day; 2020-01-31 gives year_3_5 due 2023-07-31.
C6_DueDates ==
    (FeesDone /\ ~IsError(strptime(call.args[1])))
    => LET g == call.args[1]
           Due(years) ==
               LET ty == g.y + years + (IF g.m + 6 > 12 THEN 1 ELSE 0)
                   tm == IF g.m + 6 > 12 THEN g.m - 6 ELSE g.m + 6
                   len == IF tm = 2
                          THEN (IF (ty % 4 = 0 /\ ty % 100 # 0) \/ ty % 400 = 0 THEN 29 ELSE 28)
                          ELSE IF tm \in {4, 6, 9, 11} THEN 30 ELSE 31
               IN  PyDateStr(ty, tm, IF g.d > len THEN len ELSE g.d)
           r == last.result
       IN  /\ ~IsError(r)
           /\ r.year_3_5.due_date = Due(3)
           /\ r.year_7_5.due_date = Due(7)
           /\ r.year_11_5.due_date = Due(11)
           /\ g = PyDateStr(2020, 1, 31) => r.year_3_5.due_date = PyDateStr(2023, 7, 31)

\* 2020-08-31 lands in February: the last day of February, no roll-over
C6_Witness ==
    /\ FeesDone
    /\ call.args = <<PyDateStr(2020, 8, 31)>>
    /\ last.result.year_3_5.due_date = PyDateStr(2024, 2, 29)
    /\ last.result.year_11_5.due_date = PyDateStr(2032, 2, 29)

\* C7: in every fee window window_end is due_date, window_start is the
\* (already clamped) due_date 6 calendar months back and surcharge_end the
\* due_date 6 calendar months on, the day cut to the month's length and the
\* year decremented or incremented when the month crosses a year boundary.
C7_FeeWindows ==
    (FeesDone /\ ~IsError(last.result))
    => \A k \in {"year_3_5", "year_7_5", "year_11_5"} :
         LET w == last.result[k]
             due == w.due_date
             MonthLen(y, m) == IF m = 2
                          THEN (IF (y % 4 = 0 /\ y % 100 # 0) \/ y % 400 = 0 THEN 29 ELSE 28)
                          ELSE IF m \in {4, 6, 9, 11} THEN 30 ELSE 31
             Day(y, m) == IF due.d > MonthLen(y, m) THEN MonthLen(y, m) ELSE due.d
             sy == IF due.m > 6 THEN due.y ELSE due.y - 1
             sm == IF due.m > 6 THEN due.m - 6 ELSE due.m + 6
             ey == IF due.m > 6 THEN due.y + 1 ELSE due.y
         IN  /\ w.window_end = due
             /\ w.window_start = PyDateStr(sy, sm, Day(sy, sm))
             /\ w.surcharge_end = PyDateStr(ey, sm, Day(ey, sm))

\* due in March: the window opens in September of the year before
C7_Witness ==
    /\ FeesDone
    /\ call.args = <<PyDateStr(2020, 9, 29)>>
    /\ last.result.year_3_5.due_date = PyDateStr(2024, 3, 29)
    /\ last.result.year_3_5.window_start = PyDateStr(2023, 9, 29)
    /\ last.result.year_3_5.surcharge_end = PyDateStr(2024, 9, 29)

\* C8: in a result of calculate_expiry or calculate_design_patent_expiry,
\* is_active is true iff the instant datetime.now() returned in the call is
\* strictly before midnight at the start of the calculated_expiry date.
C8_ActiveStrictlyBefore ==
    ((ExpiryDone \/ DesignDone) /\ ~IsError(last.result))
    => (last.result.is_active
          <=> last.t < (toordinal(strptime(last.result.calculated_expiry)) - 1) * TicksPerDay)

\* evaluated exactly at midnight of calculated_expiry: inactive
C8_Witness ==
    /\ ExpiryDone \/ DesignDone
    /\ ~IsError(last.result)
    /\ last.t = (toordinal(strptime(last.result.calculated_expiry)) - 1) * TicksPerDay
    /\ ~last.result.is_active

-----------------------------------------------------------------------------
(* Properties of handle_analyze, checked under Spec *)

\* C10: in a successful result computed from the data source, a patent whose
\* patent_type contains "design" (case-insensitively) carries the expiration
\* of the design calculator and maintenance_fees None, a patent not so
\* classified carries the expiration of the 20-year calculator and a fee
\* schedule iff a grant date exists; the fee scheduler is never invoked for
\* a design patent.
C10_DesignDispatch ==
    (response.out.kind = "result" /\ ~response.out.from_cache)
    => LET d == response.out.data
           design == /\ d.patent_type # Missing
                     /\ contains_design(lower(d.patent_type.s))
       IN  IF design
           THEN /\ d.expiration = calculate_design_patent_expiry(d.dates.granted, d.dates.filed,
                                                                 response.at)
                /\ d.maintenance_fees = PyNone
                /\ response.invoked = {"calculate_design_patent_expiry"}
           ELSE /\ d.expiration = calculate_expiry(d.dates.filed, PyInt(0),
                                                   PyInt(d.dates.pte_days), PyNone, response.at)
                /\ "calculate_design_patent_expiry" \notin response.invoked
                /\ d.maintenance_fees # PyNone <=> d.dates.granted # PyNone
                /\ d.dates.granted # PyNone
                     => /\ d.maintenance_fees = calculate_maintenance_fees(d.dates.granted)
                        /\ "calculate_maintenance_fees" \in response.invoked

\* a patent of type "Design" computed from the data source: 14 years, no fees
C10_Witness ==
    /\ response.out.kind = "result"
    /\ ~response.out.from_cache
    /\ response.out.data.patent_type = PyStr(<<"D", "e", "s", "i", "g", "n">>)
    /\ response.out.data.expiration.reason = "14 years from grant date"
    /\ response.out.data.maintenance_fees = PyNone
    /\ response.invoked = {"calculate_design_patent_expiry"}

\* C11: when the data source supplies no grant date for a design patent, or
\* no filing date for any patent, the request fails with an error, no
\* calculator is invoked for it and the reply leaves the analysis cache as
\* it was.
C11_MissingDateFails ==
    [][(/\ BagCardinality(inflight') < BagCardinality(inflight)
        /\ response'.out.kind # "HTTPException" \/ response'.out.status_code # 500
        /\ LET p == PatentsView(response'.req.patent_num)
           IN  /\ p # PyNone
               /\ \/ p.patent_earliest_application_date = PyNone
                  \/ /\ p.patent_date = PyNone
                     /\ p.patent_type \notin {PyNone, Missing}
                     /\ contains_design(lower(p.patent_type.s)))
       => /\ response'.out.kind \in {"HTTPException", "exception"}
          /\ response'.invoked = {}
          /\ analysis_cache' = analysis_cache]_vars

\* the design patent without grant date refused while the cache holds an entry
C11_Witness ==
    /\ response.out = HTTPException(400,
                        "Grant date required for design patent expiry calculation")
    /\ response.invoked = {}
    /\ DOMAIN analysis_cache # {}

-----------------------------------------------------------------------------
(* Properties of the calendar primitives, checked under SpecDate *)

AddDone == call.fn = "add_years_months" /\ last.done

\* C12: for N in {14, 15, 20} the date plus relativedelta(years=N), as added
\* by calculate_expiry and calculate_design_patent_expiry, is exactly
\* add_years_months(date, N, 0).
C12_SameClampingRule ==
    (/\ AddDone
     /\ again.done
     /\ call.args[2] \in {14, 15, 20}
     /\ call.args[3] = 0)
    => again.result = last.result

\* Feb 29 of 2012 plus 14 years: both give Feb 28 of 2026
C12_Witness ==
    /\ AddDone
    /\ again.done
    /\ call.args = <<[year |-> 2012, month |-> 2, day |-> 29], 14, 0>>
    /\ last.result = [year |-> 2026, month |-> 2, day |-> 28]
    /\ again.result = [year |-> 2026, month |-> 2, day |-> 28]

\* C13 as stated: for every valid date and all integers years and months,
\* add_years_months returns a date with month in 1..12, the year absorbing
\* every whole multiple of 12 months, the day min(d.day, days of the
\* resulting month), and it never raises.
C13_NeverRaises ==
    AddDone
    => LET d == call.args[1]
           total == d.year * 12 + (d.month - 1) + call.args[2] * 12 + call.args[3]
           y == total \div 12
           m == (total % 12) + 1
           len == IF m = 2
                  THEN (IF (y % 4 = 0 /\ y % 100 # 0) \/ y % 400 = 0 THEN 29 ELSE 28)
                  ELSE IF m \in {4, 6, 9, 11} THEN 30 ELSE 31
       IN  /\ ~IsError(last.result)
           /\ last.result = [year |-> y, month |-> m,
                             day |-> IF d.day > len THEN len ELSE d.day]

\* C13 (amended): the same whenever the resulting year lies in 1..9999, and
\* add(d, years, months) = add(d, years + 1, months - 12); when the
\* resulting year lies outside 1..9999 the call raises ValueError.
C13_ValidWithinYearRange ==
    AddDone
    => LET d == call.args[1]
           total == d.year * 12 + (d.month - 1) + call.args[2] * 12 + call.args[3]
           y == total \div 12
           m == (total % 12) + 1
           len == IF m = 2
                  THEN (IF (y % 4 = 0 /\ y % 100 # 0) \/ y % 400 = 0 THEN 29 ELSE 28)
                  ELSE IF m \in {4, 6, 9, 11} THEN 30 ELSE 31
       IN  /\ last.result = add_years_months(d, call.args[2] + 1, call.args[3] - 12)
           /\ IF y >= 1 /\ y <= 9999
              THEN last.result = [year |-> y, month |-> m,
                                  day |-> IF d.day > len THEN len ELSE d.day]
              ELSE last.result = [exc |-> "ValueError"]

\* Jan 31 of 2012 minus 13 months: month 1 - 13 is below 1 and borrows two
\* years, giving Dec 31 of 2010
C13_Witness ==
    /\ AddDone
    /\ call.args = <<[year |-> 2012, month |-> 1, day |-> 31], 0, -13>>
    /\ last.result = [year |-> 2010, month |-> 12, day |-> 31]

-----------------------------------------------------------------------------
(* Properties of the analysis cache, checked under Spec *)

\* C14: a request that carries a patent identifier is answered with the
\* stored result, marked from_cache, if and only if force_refresh is false
\* and the cache holds an entry under the normalized identifier whose age is
\* strictly less than 24 hours; otherwise it goes to the data source and a
\* successful reply replaces the entry with the new result and the current
\* timestamp. "US7", " us7" and "7" read and write the same entry.
C14_CacheHitIffFresh ==
    [][/\ (/\ started' # started
           /\ inflight' = inflight
           /\ response'.out.kind = "result")
          => LET id == response'.req.patent_id
                 key == cache_key_of(patent_num_of(id))
             IN  /\ response'.out.from_cache
                 /\ ~response'.req.force_refresh
                 /\ id.s \in {<<"U", "S", "7">>, <<" ", "u", "s", "7">>, <<"7">>}
                      => key = <<"analyze:", "7">>
                 /\ key \in DOMAIN analysis_cache
                 /\ (now - analysis_cache[key].timestamp) * SecondsPerTick < 24 * 3600
                 /\ response'.out.data = analysis_cache[key].data
                 /\ analysis_cache' = analysis_cache
       /\ (/\ started' # started
           /\ BagCardinality(inflight') > BagCardinality(inflight))
          => LET pending == CHOOSE q \in BagToSet(inflight') :
                                CopiesIn(q, inflight') > CopiesIn(q, inflight)
                 key == pending.cache_key
             IN  /\ key = <<"analyze:">> \o pending.patent_num
                 /\ \/ pending.force_refresh
                    \/ key \notin DOMAIN analysis_cache
                    \/ (now - analysis_cache[key].timestamp) * SecondsPerTick >= 24 * 3600
       /\ (/\ BagCardinality(inflight') < BagCardinality(inflight)
           /\ response'.out.kind = "result")
          => LET key == response'.req.cache_key
             IN  /\ ~response'.out.from_cache
                 /\ response'.invoked # {}
                 /\ DOMAIN analysis_cache' = DOMAIN analysis_cache \cup {key}
                 /\ analysis_cache'[key] = [data |-> response'.out.data, timestamp |-> now]
                 /\ \A k \in DOMAIN analysis_cache :
                        k # key => analysis_cache'[k] = analysis_cache[k]
      ]_vars

\* " us7" is answered from the entry stored under "analyze:7" some time
\* after that entry was written
C14_Witness ==
    /\ response.out.kind = "result"
    /\ response.out.from_cache
    /\ response.req.patent_id = PyStr(<<" ", "u", "s", "7">>)
    /\ <<"analyze:", "7">> \in DOMAIN analysis_cache
    /\ response.out.data = analysis_cache[<<"analyze:", "7">>].data
    /\ response.at > analysis_cache[<<"analyze:", "7">>].timestamp

\* C15: in every response of handle_analyze that carries a result, a
\* response served from the analysis cache included, is_active is true if
\* and only if the instant of the response is strictly before midnight of
\* calculated_expiry.
C15_ActiveAtResponseInstant ==
    response.out.kind = "result"
    => LET final_date == strptime(response.out.data.dates.calculated_expiry)
       IN  response.out.data.is_active
           <=> response.at < (toordinal(final_date) - 1) * TicksPerDay

=============================================================================
